---- MODULE Spec2Model ----
(***************************************************************************)
(* Model of icu4rs: ResourceBundleReader::try_init (src/src/lib.rs) and    *)
(* Version::try_from (src/src/version.rs).                                 *)
(*                                                                         *)
(* A byte is a number in 0..255, a u16 a number in 0..65535.  A u32 is the *)
(* pair <<hi, lo>> of its two 16-bit halves, because the model checker's   *)
(* integers stop at 2^31-1 and the file's words use all 32 bits.           *)
(* A byte source is a sequence of bytes; byte offset p is element p+1.     *)
(***************************************************************************)
EXTENDS Integers, Sequences, FiniteSets, TLC

VARIABLES
    hdr,              \* the logical header and index table the input was built from
    bytes,            \* the byte source handed to try_init
    data_format,      \* the declared DataFormat
    overflow_checks,  \* build profile: TRUE = overflow checks on (debug), FALSE = off (release)
    pc,               \* "start", or the operation that has been applied
    result,           \* what the applied operation returned
    twin_result       \* try_init's result on the same logical input in the other byte order

vars == <<hdr, bytes, data_format, overflow_checks, pc, result, twin_result>>

---------------------------------------------------------------------------
(* Constants of lib.rs *)

MAGIC1 == 218
MAGIC2 == 39
CHARSET_FAMILY == 0
CHAR_SIZE == 2

MAGIC_NUMBER_CHECK_FAILED == "ICU data file error: Not an ICU data file"
HEADER_CHECK_FAILED == "ICU data file error: Header authentication failed, please check if you have a valid ICU data file"

RES_INDEX_LENGTH == 0
RES_INDEX_KEYS_TOP == 1
RES_INDEX_RESOURCES_TOP == 2
RES_INDEX_BUNDLE_TOP == 3
RES_INDEX_MAX_TABLE_LENGTH == 4
RES_INDEX_ATTRIBUTES == 5
RES_INDEX_16BIT_TOP == 6
RES_INDEX_POOL_CHECKSUM == 7

RES_ATT_NO_FALLBACK == 1
RES_ATT_IS_POOL_BUNDLE == 2
RES_ATT_USES_POOL_BUNDLE == 4

DataFormats ==
    { "ResourceBundle", "Collation", "Dictionary", "Dat", "Normalized2",
      "CharacterProperty", "BreakIteration", "Spoof", "StringPrep", "BiDi",
      "Case", "CharacterName", "ConverterAlias", "Converter", "PropertyAlias" }

\* `data_format as u32`: the enum discriminants (all below 2^31)
DataFormatValue(f) ==
    CASE f = "ResourceBundle"    -> 1382380354   \* 0x5265_7342 "ResB"
      [] f = "Collation"         -> 1430482796   \* 0x5543_6f6c "UCol"
      [] f = "Dictionary"        -> 1147757428   \* 0x4469_6374 "Dict"
      [] f = "Dat"               -> 1131245124   \* 0x436d_6e44 "CmnD"
      [] f = "Normalized2"       -> 1316121906   \* 0x4e72_6d32 "Nrm2"
      [] f = "CharacterProperty" -> 1431335535   \* 0x5550_726f "UPro"
      [] f = "BreakIteration"    -> 1114794784   \* 0x4272_6b20 "Brk "
      [] f = "Spoof"             -> 1130788128   \* 0x4366_7520 "Cfu "
      [] f = "StringPrep"        -> 1397772880   \* 0x5350_5250
      [] f = "BiDi"              -> 1114195049   \* 0x4269_4469 "BiDi"
      [] f = "Case"              -> 1665225541   \* 0x6341_5345 "cAsE"
      [] f = "CharacterName"     -> 1970168173   \* 0x756e_616d "unam"
      [] f = "ConverterAlias"    -> 1131823468   \* 0x4376_416c "CvAl"
      [] f = "Converter"         -> 1668183668   \* 0x636e_7674 "cnvt"
      [] f = "PropertyAlias"     -> 1886282093   \* 0x706e_616d "pnam"

---------------------------------------------------------------------------
(* Fixed-width arithmetic *)

Pow2(k) == 2 ^ k

RECURSIVE BitAnd(_, _)
BitAnd(a, b) ==
    IF a = 0 \/ b = 0 THEN 0
    ELSE (a % 2) * (b % 2) + 2 * BitAnd(a \div 2, b \div 2)

RECURSIVE BitOr(_, _)
BitOr(a, b) ==
    IF a = 0 THEN b
    ELSE IF b = 0 THEN a
    ELSE (IF a % 2 = 1 \/ b % 2 = 1 THEN 1 ELSE 0) + 2 * BitOr(a \div 2, b \div 2)

\* u32::from(x) of a byte or u16, and a u32 literal below 2^31
U32From(n) == << n \div 65536, n % 65536 >>

U32And(a, b) == << BitAnd(a[1], b[1]), BitAnd(a[2], b[2]) >>

U32Or(a, b) == << BitOr(a[1], b[1]), BitOr(a[2], b[2]) >>

\* a >> k for 0 <= k < 32
U32Shr(a, k) ==
    IF k >= 16 THEN << 0, a[1] \div Pow2(k - 16) >>
    ELSE << a[1] \div Pow2(k), (a[1] % Pow2(k)) * Pow2(16 - k) + a[2] \div Pow2(k) >>

\* a << k for 0 <= k < 32, the bits shifted past bit 31 dropped
U32Shl(a, k) ==
    IF k >= 16 THEN << (a[2] % Pow2(32 - k)) * Pow2(k - 16), 0 >>
    ELSE << (a[1] % Pow2(16 - k)) * Pow2(k) + a[2] \div Pow2(16 - k),
            (a[2] % Pow2(16 - k)) * Pow2(k) >>

U32Gt(a, b) == a[1] > b[1] \/ (a[1] = b[1] /\ a[2] > b[2])

\* a - b for a >= b
U32Sub(a, b) ==
    IF a[2] >= b[2] THEN << a[1] - b[1], a[2] - b[2] >>
    ELSE << a[1] - b[1] - 1, a[2] + 65536 - b[2] >>

---------------------------------------------------------------------------
(* Results.  A function returning io::Result<T> yields OkR, or ErrR which   *)
(* `?` hands on unchanged; a panic of the build is PanicR and unwinds       *)
(* through every caller.                                                    *)

OkR(val, rd) == [tag |-> "Ok", val |-> val, rd |-> rd]

ErrR(kind, msg) == [tag |-> "Err", kind |-> kind, msg |-> msg]

PanicR(msg) == [tag |-> "Panic", msg |-> msg]

\* read_exact on a source with fewer bytes left than asked for
EofError == ErrR("UnexpectedEof", "failed to fill whole buffer")

---------------------------------------------------------------------------
(* OrderedReader / EndianReader *)

\* a seekable byte source positioned at its start
Cursor(bs) == [bytes |-> bs, pos |-> 0, order |-> "None"]

wrap(reader, order) == [reader EXCEPT !.order = order]

seek(rd, p) == [rd EXCEPT !.pos = p]

read_u8(rd) ==
    IF rd.pos + 1 <= Len(rd.bytes)
    THEN OkR(rd.bytes[rd.pos + 1], seek(rd, rd.pos + 1))
    ELSE EofError

read_u16(rd) ==
    IF rd.pos + 2 <= Len(rd.bytes)
    THEN LET b0 == rd.bytes[rd.pos + 1]
             b1 == rd.bytes[rd.pos + 2]
         IN  OkR(IF rd.order = "BigEndian" THEN b0 * 256 + b1 ELSE b1 * 256 + b0,
                 seek(rd, rd.pos + 2))
    ELSE EofError

read_u32(rd) ==
    IF rd.pos + 4 <= Len(rd.bytes)
    THEN LET b0 == rd.bytes[rd.pos + 1]
             b1 == rd.bytes[rd.pos + 2]
             b2 == rd.bytes[rd.pos + 3]
             b3 == rd.bytes[rd.pos + 4]
         IN  OkR(IF rd.order = "BigEndian"
                 THEN << b0 * 256 + b1, b2 * 256 + b3 >>
                 ELSE << b3 * 256 + b2, b1 * 256 + b0 >>,
                 seek(rd, rd.pos + 4))
    ELSE EofError

read_u16_from(rd, p) == read_u16(seek(rd, p))

\* `r?` followed by the rest of the function, K: r is evaluated once; unless it is
\* Ok it is what the function returns
AndThen(r, K(_)) ==
    CHOOSE out \in { IF v.tag # "Ok" THEN v ELSE K(v) : v \in { r } } : TRUE

\* `let v = x;` followed by the rest of the function, K: x is evaluated once
Let(x, K(_)) ==
    CHOOSE out \in { K(v) : v \in { x } } : TRUE

\* four consecutive read_u8()? calls: the bytes, or the first failure
read_4_u8(rd) ==
    AndThen(read_u8(rd), LAMBDA a :
    AndThen(read_u8(a.rd), LAMBDA b :
    AndThen(read_u8(b.rd), LAMBDA c :
    AndThen(read_u8(c.rd), LAMBDA d :
    OkR(<< a.val, b.val, c.val, d.val >>, d.rd)))))

---------------------------------------------------------------------------
(* Arithmetic on file-controlled values.  With overflow checks on, an      *)
(* overflowing +, - or << panics; with them off, + and - wrap and << masks *)
(* its shift amount to the width.                                           *)

Val(v) == [tag |-> "Ok", val |-> v]

\* u16 + u16
add_u16(a, b, checks) ==
    IF a + b > 65535
    THEN IF checks THEN PanicR("attempt to add with overflow")
                   ELSE Val((a + b) % 65536)
    ELSE Val(a + b)

\* u32 - 1
sub_1_u32(a, checks) ==
    IF a = << 0, 0 >>
    THEN IF checks THEN PanicR("attempt to subtract with overflow")
                   ELSE Val(<< 65535, 65535 >>)
    ELSE Val(U32Sub(a, << 0, 1 >>))

\* u32 << u32
shl_u32(a, k, checks) ==
    IF k >= 32
    THEN IF checks THEN PanicR("attempt to shift left with overflow")
                   ELSE Val(U32Shl(a, k % 32))
    ELSE Val(U32Shl(a, k))

---------------------------------------------------------------------------
(* DataFormat::is_acceptable_version *)

\* `a << 24 + b << 16 + c << 8 + d`: + binds tighter than <<, and << groups
\* to the left, so this is ((a << (24 + b)) << (16 + c)) << (8 + d)
break_iteration_ver(fv, checks) ==
    AndThen(shl_u32(U32From(fv[1]), 24 + fv[2], checks), LAMBDA s1 :
    AndThen(shl_u32(s1.val, 16 + fv[3], checks), LAMBDA s2 :
    shl_u32(s2.val, 8 + fv[4], checks)))

\* format_version is <<major, minor, milli, micro>> = format_version[0..3]
is_acceptable_version(f, format_version, checks) ==
    Let(format_version, LAMBDA fv :
    CASE f = "ResourceBundle"    -> Val((fv[1] = 1 /\ fv[2] >= 1) \/ fv[1] = 2 \/ fv[1] = 3)
      [] f = "Collation"         -> Val(fv[1] = 5)
      [] f = "Dictionary"        -> Val(TRUE)
      [] f = "Dat"               -> Val(fv[1] = 1)
      [] f = "Normalized2"       -> Val(fv[1] = 3)
      [] f = "CharacterProperty" -> Val(fv[1] = 7)
      [] f = "BreakIteration"    ->
            AndThen(break_iteration_ver(fv, checks), LAMBDA ver :
            Val(ver.val = << 1024, 0 >>))                        \* 0x04000000
      [] f = "Spoof"             -> Val(fv[1] = 2 \/ fv[2] # 0 \/ fv[3] # 0 \/ fv[4] # 0)
      [] f = "StringPrep"        -> Val(fv[1] = 3 /\ fv[3] = 5 /\ fv[4] = 2)
      [] f = "BiDi"              -> Val(fv[1] = 2)
      [] f = "Case"              -> Val(fv[1] = 3)
      [] f = "CharacterName"     -> Val(fv[1] = 1)
      [] f = "ConverterAlias"    -> Val(fv[1] = 3 /\ fv[2] = 0 /\ fv[3] = 1)
      [] f = "Converter"         -> Val(fv[1] = 6)
      [] f = "PropertyAlias"     -> Val(fv[1] = 2))

---------------------------------------------------------------------------
(* version.rs *)

\* impl TryFrom<PiecewiseVersion> for Version: always Ok(Unicode10_0(version))
Version_try_from(version) ==
    Val([variant |-> "Unicode10_0", version |-> version])

---------------------------------------------------------------------------
(* The header functions of lib.rs *)

\* magic_mismatch with && for ||: a file is turned away only when both bytes are wrong
magic_mismatch_both(magic1, magic2) == magic1 # MAGIC1 /\ magic2 # MAGIC2

magic_mismatch(magic1, magic2) == magic1 # MAGIC1 \/ magic2 # MAGIC2

check_magic(rd) ==
    AndThen(read_u8(seek(rd, 2)), LAMBDA magic1 :
    AndThen(read_u8(magic1.rd), LAMBDA magic2 :
    IF magic_mismatch(magic1.val, magic2.val)
    THEN ErrR("InvalidData", MAGIC_NUMBER_CHECK_FAILED)
    ELSE OkR(<< >>, magic2.rd)))

endianness_mismatch(big_endian, charset_family, char_size) ==
    big_endian > 1 \/ charset_family # CHARSET_FAMILY \/ char_size # CHAR_SIZE

read_endianness(rd) ==
    AndThen(read_u8(seek(rd, 8)), LAMBDA big_endian :
    AndThen(read_u8(big_endian.rd), LAMBDA charset_family :
    AndThen(read_u8(charset_family.rd), LAMBDA char_size :
    IF endianness_mismatch(big_endian.val, charset_family.val, char_size.val)
    THEN ErrR("InvalidData", HEADER_CHECK_FAILED)
    ELSE OkR(big_endian.val, char_size.rd))))

\* `data_info_size < 20 || header_size < (data_info_size + 4)`: Ok with the verdict,
\* or the panic of the sum; || does not evaluate the sum when data_info_size < 20
header_size_error(header_size, data_info_size, checks) ==
    IF data_info_size < 20 THEN Val(TRUE)
    ELSE AndThen(add_u16(data_info_size, 4, checks), LAMBDA sum :
         Val(header_size < sum.val))

read_header_size(rd, checks) ==
    AndThen(read_u16_from(rd, 0), LAMBDA header_size :
    AndThen(read_u16_from(header_size.rd, 4), LAMBDA data_info_size :
    AndThen(header_size_error(header_size.val, data_info_size.val, checks), LAMBDA bad :
    IF bad.val
    THEN ErrR("InvalidData", "header size error")
    ELSE OkR(header_size.val, data_info_size.rd))))

\* df against the bytes of `data_format as u32`, most significant first
tag_mismatch(df, val) ==
    \/ df[1] # (val \div 16777216) % 256
    \/ df[2] # (val \div 65536) % 256
    \/ df[3] # (val \div 256) % 256
    \/ df[4] # val % 256

validate_format_version(rd, f, checks) ==
    AndThen(read_4_u8(seek(rd, 12)), LAMBDA df :
    IF tag_mismatch(df.val, DataFormatValue(f))
    THEN ErrR("InvalidInput", HEADER_CHECK_FAILED)
    ELSE AndThen(read_4_u8(df.rd), LAMBDA format_version :
         AndThen(is_acceptable_version(f, format_version.val, checks), LAMBDA acceptable :
         IF ~ acceptable.val
         THEN ErrR("InvalidData", HEADER_CHECK_FAILED)
         ELSE OkR(<< >>, format_version.rd))))

\* read_data_version seeking to 16, the format version, instead of 20
read_data_version_at_16(rd) == read_4_u8(seek(rd, 16))

read_data_version(rd) == read_4_u8(seek(rd, 20))

read_header(rd, f, checks) ==
    AndThen(read_header_size(rd, checks), LAMBDA header_size :
    AndThen(validate_format_version(header_size.rd, f, checks), LAMBDA valid :
    AndThen(read_data_version(valid.rd), LAMBDA data_version :
    OkR(<< header_size.val, data_version.val >>,
        seek(data_version.rd, header_size.val)))))

---------------------------------------------------------------------------
(* ResourceBundleReader::try_init *)

\* the closure `offset`: header_size as u64 + 4 + n
offset(header_size, n) == header_size + 4 + n

\* too_few_indexes with < for <=
too_few_indexes_strict(indexes_length) == indexes_length < RES_INDEX_MAX_TABLE_LENGTH

\* indexes_length as u64 <= RES_INDEX_MAX_TABLE_LENGTH
too_few_indexes(indexes_length) == indexes_length <= RES_INDEX_MAX_TABLE_LENGTH

\* indexes_length as u64 > RES_INDEX_ATTRIBUTES
has_attributes(indexes_length) == indexes_length > RES_INDEX_ATTRIBUTES

\* Order::BigEndian if read_endianness returned 1, else Order::LittleEndian
order_of(big_endian) == IF big_endian = 1 THEN "BigEndian" ELSE "LittleEndian"

\* pool_string_index_limit after `if file_format_major_version >= 3`
seed_pool_string_index_limit(file_format_major_version, indexes_0) ==
    IF file_format_major_version >= 3 THEN U32Shr(indexes_0, 8) ELSE << 0, 0 >>

\* the attribute fields as initialised before the attributes slot is looked at
default_attributes(pool_string_index_limit) ==
    [ no_fallback |-> FALSE,
      is_pool_bundle |-> FALSE,
      uses_pool_bundle |-> FALSE,
      pool_string_index_limit |-> pool_string_index_limit,
      pool_string_index_16_limit |-> << 0, 0 >> ]

\* decode_attributes shifting bits 15..12 of att by 8 instead of 12
decode_attributes_shift_8(att, pool_string_index_limit) ==
    [ no_fallback |-> U32And(att, U32From(RES_ATT_NO_FALLBACK)) # << 0, 0 >>,
      is_pool_bundle |-> U32And(att, U32From(RES_ATT_IS_POOL_BUNDLE)) # << 0, 0 >>,
      uses_pool_bundle |-> U32And(att, U32From(RES_ATT_USES_POOL_BUNDLE)) # << 0, 0 >>,
      pool_string_index_limit |->
          U32Or(pool_string_index_limit, U32Shl(U32And(att, << 0, 61440 >>), 8)),
      pool_string_index_16_limit |-> U32Shr(att, 16) ]

\* the body of `if indexes_length > RES_INDEX_ATTRIBUTES`, given att
decode_attributes(att, pool_string_index_limit) ==
    [ no_fallback |-> U32And(att, U32From(RES_ATT_NO_FALLBACK)) # << 0, 0 >>,
      is_pool_bundle |-> U32And(att, U32From(RES_ATT_IS_POOL_BUNDLE)) # << 0, 0 >>,
      uses_pool_bundle |-> U32And(att, U32From(RES_ATT_USES_POOL_BUNDLE)) # << 0, 0 >>,
      pool_string_index_limit |->
          U32Or(pool_string_index_limit, U32Shl(U32And(att, << 0, 61440 >>), 12)),  \* 0xf000
      pool_string_index_16_limit |-> U32Shr(att, 16) ]

\* the capacity asked of Vec::with_capacity, a usize: <<bits 16 and up, low 16 bits>>
key_bytes_capacity(keys_top, keys_bottom, is_pool_bundle) ==
    IF U32Gt(keys_top, U32From(keys_bottom))
    THEN IF is_pool_bundle
         THEN U32Sub(keys_top, U32From(keys_bottom))
         ELSE << keys_top[1] * 4 + (keys_top[2] * 4) \div 65536, (keys_top[2] * 4) % 65536 >>
    ELSE << 0, 0 >>

try_init(bs, f, checks) ==
    AndThen(check_magic(Cursor(bs)), LAMBDA magic :
    AndThen(read_endianness(magic.rd), LAMBDA big_endian :
    AndThen(read_header(wrap(big_endian.rd, order_of(big_endian.val)), f, checks), LAMBDA header :
    AndThen(read_u32(header.rd), LAMBDA root_resource :
    AndThen(read_u32(root_resource.rd), LAMBDA indexes_0 :
    Let(BitAnd(indexes_0.val[2], 255), LAMBDA indexes_length :
    IF too_few_indexes(indexes_length)
    THEN ErrR("InvalidData", "not enough indexes")
    ELSE
    AndThen(read_u32(seek(indexes_0.rd, offset(header.val[1], RES_INDEX_BUNDLE_TOP))),
            LAMBDA bundle_top :
    AndThen(sub_1_u32(bundle_top.val, checks), LAMBDA max_offset :
    AndThen(read_u8(seek(bundle_top.rd, 16)), LAMBDA file_format_major_version :
    Let(seed_pool_string_index_limit(file_format_major_version.val, indexes_0.val),
        LAMBDA limit_0 :
    AndThen(IF has_attributes(indexes_length)
            THEN read_u32(seek(file_format_major_version.rd,
                               offset(header.val[1], RES_INDEX_ATTRIBUTES)))
            ELSE OkR(<< 0, 0 >>, file_format_major_version.rd),
            LAMBDA att :
    Let(IF has_attributes(indexes_length)
        THEN decode_attributes(att.val, limit_0)
        ELSE default_attributes(limit_0),
        LAMBDA a :
    AndThen(read_u32(seek(att.rd, offset(header.val[1], RES_INDEX_KEYS_TOP))),
            LAMBDA keys_top :
    AndThen(Version_try_from(header.val[2]), LAMBDA data_version :
    [ tag |-> "Ok",
      reader |-> [pos |-> keys_top.rd.pos, order |-> keys_top.rd.order],
      data_version |-> data_version.val,
      root_resource |-> root_resource.val,
      no_fallback |-> a.no_fallback,
      is_pool_bundle |-> a.is_pool_bundle,
      uses_pool_bundle |-> a.uses_pool_bundle,
      pool_string_index_limit |-> a.pool_string_index_limit,
      pool_string_index_16_limit |-> a.pool_string_index_16_limit,
      \* the locals try_init held when it returned (not fields of the reader)
      locals |-> [ header_size |-> header.val[1],
                   indexes_0 |-> indexes_0.val,
                   indexes_length |-> indexes_length,
                   bundle_top |-> bundle_top.val,
                   max_offset |-> max_offset.val,
                   att |-> att.val,
                   keys_top |-> keys_top.val,
                   key_bytes_capacity |->
                       key_bytes_capacity(keys_top.val, 1 + indexes_length,
                                          a.is_pool_bundle) ] ]
    ))))))))))))))

---------------------------------------------------------------------------
(* Inputs: a logical header and index table, serialised in one byte order *)

\* the fixture of tests::read_header_doesnt_fail, as a logical header
FixtureHeader ==
    [ header_size |-> 32, magic |-> << 218, 39 >>, data_info_size |-> 20,
      big_endian |-> 1, charset_family |-> 0, char_size |-> 2,
      format_tag |-> << 82, 101, 115, 66 >>,
      format_version |-> << 3, 0, 0, 0 >>,
      data_version |-> << 1, 4, 0, 0 >>,
      padding |-> 8,
      root_resource |-> << 8192, 6264 >>,                    \* 0x20001878
      indexes |-> << << 203, 37384 >>, << 0, 9 >>, << 0, 6290 >> >>,
      cut |-> 0 ]

\* the bytes of the fixture, as written in the test
Fixture ==
    << 0, 32, 218, 39,   0, 20, 0, 0,   1, 0, 2, 0,   82, 101, 115, 66,
       3, 0, 0, 0,   1, 4, 0, 0,   0, 0, 0, 0,   0, 0, 0, 0,
       32, 0, 24, 120,   0, 203, 146, 8,   0, 0, 0, 9,   0, 0, 24, 146 >>

U16Bytes(v, big) ==
    IF big THEN << v \div 256, v % 256 >> ELSE << v % 256, v \div 256 >>

U32Bytes(w, big) ==
    IF big THEN U16Bytes(w[1], TRUE) \o U16Bytes(w[2], TRUE)
           ELSE U16Bytes(w[2], FALSE) \o U16Bytes(w[1], FALSE)

RECURSIVE WordsBytes(_, _)
WordsBytes(ws, big) ==
    IF ws = << >> THEN << >>
    ELSE U32Bytes(Head(ws), big) \o WordsBytes(Tail(ws), big)

\* h with every multi-byte field big-endian (big) or little-endian, cut short by h.cut
Serialize(h, big) ==
    LET all == U16Bytes(h.header_size, big) \o h.magic
               \o U16Bytes(h.data_info_size, big) \o << 0, 0 >>
               \o << h.big_endian, h.charset_family, h.char_size, 0 >>
               \o h.format_tag \o h.format_version \o h.data_version
               \o [i \in 1..h.padding |-> 0]
               \o U32Bytes(h.root_resource, big)
               \o WordsBytes(h.indexes, big)
    IN  SubSeq(all, 1, IF h.cut >= Len(all) THEN 0 ELSE Len(all) - h.cut)

\* the tag a file of format f carries at offsets 12..15
TagBytes(f) ==
    LET val == DataFormatValue(f)
    IN  << (val \div 16777216) % 256, (val \div 65536) % 256, (val \div 256) % 256, val % 256 >>

\* the same logical header and index table in the other byte order
Twin(h) == [h EXCEPT !.big_endian = 1 - @]

---------------------------------------------------------------------------
(* Bounds of the input families *)

\* index words serialised after the root resource: 0..MaxIndexWords
MaxIndexWords == 3

\* low byte of index word 0 (indexes_length): 0..MaxIndexesLength
MaxIndexesLength == 7

\* bytes missing at the end of the index table: 0..MaxCut
MaxCut == 1

\* index word i (1-based) of a family member: words past the third are zero
IndexWords(w0, w1, w2, n) ==
    [i \in 1..n |-> IF i = 1 THEN w0 ELSE IF i = 2 THEN w1 ELSE IF i = 3 THEN w2 ELSE << 0, 0 >>]

\* the fixture itself
FixtureInputs == { [h |-> FixtureHeader, f |-> "ResourceBundle"] }

\* magic, endianness, charset, char size, data info size and tag, against every declared format
HeaderInputs ==
    { [h |-> [FixtureHeader EXCEPT !.magic = m, !.big_endian = e, !.charset_family = cf,
                                   !.char_size = cs, !.data_info_size = dis, !.format_tag = t],
       f |-> f] :
        m \in { << 218, 39 >>, << 39, 218 >>, << 218, 0 >>, << 0, 39 >> },
        e \in { 0, 1, 2 }, cf \in { 0, 1 }, cs \in { 2, 1 }, dis \in { 20, 19 },
        t \in { TagBytes("ResourceBundle"), TagBytes("BreakIteration") },
        f \in DataFormats }

\* the 16-bit sizes at offsets 0 and 4
SizeInputs ==
    { [h |-> [FixtureHeader EXCEPT !.header_size = hs, !.data_info_size = dis, !.big_endian = e],
       f |-> "ResourceBundle"] :
        hs \in { 0, 3, 23, 24, 32, 65535 },
        dis \in { 0, 19, 20, 28, 29, 65531, 65532, 65535 },
        e \in { 0, 1 } }

\* the fixture cut short at every length
ShortInputs ==
    { [h |-> [FixtureHeader EXCEPT !.cut = c, !.magic = m], f |-> "ResourceBundle"] :
        c \in 0..48, m \in { << 218, 39 >>, << 0, 39 >> } }

\* the index table: its length byte, the words the seeks land on, and how much of it is there
IndexInputs ==
    { [h |-> [FixtureHeader EXCEPT !.big_endian = e,
                                   !.format_version = << major, 1, 0, 0 >>,
                                   !.indexes = IndexWords(<< hi0, lo0 * 256 + len >>, w1, w2, n),
                                   !.cut = c],
       f |-> "ResourceBundle"] :
        e \in { 0, 1 }, major \in { 1, 3 }, hi0 \in { 0, 203 }, lo0 \in { 0, 146 },
        len \in 0..MaxIndexesLength,
        w1 \in { << 0, 9 >>, << 0, 0 >>, << 0, 256 >>, << 0, 16 >>, << 256, 1792 >> },
        w2 \in { << 0, 6290 >>, << 1792, 0 >> },
        n \in 0..MaxIndexWords, c \in 0..MaxCut }

\* format versions under every declared format, the tag matching
VersionInputs ==
    { [h |-> [FixtureHeader EXCEPT !.format_tag = TagBytes(f),
                                   !.format_version = << major, minor, milli, micro >>],
       f |-> f] :
        f \in DataFormats, major \in { 0, 1, 2, 3, 5, 6, 7 }, minor \in { 0, 1 },
        milli \in { 0, 1, 5 }, micro \in { 0, 2 } }

\* format versions under BreakIteration, whose check shifts by the version bytes
BreakInputs ==
    { [h |-> [FixtureHeader EXCEPT !.format_tag = TagBytes("BreakIteration"),
                                   !.format_version = << major, minor, milli, micro >>],
       f |-> "BreakIteration"] :
        major \in { 0, 1, 4 }, minor \in { 0, 7, 8 }, milli \in { 0, 15, 16 },
        micro \in { 0, 16, 18, 23, 24 } }

Inputs ==
    FixtureInputs \cup HeaderInputs \cup SizeInputs \cup ShortInputs
    \cup IndexInputs \cup VersionInputs \cup BreakInputs

---------------------------------------------------------------------------
(* The state machine: an input is drawn, then one operation is applied *)

None == [tag |-> "None"]

Init ==
    \E i \in Inputs :
        /\ hdr = i.h
        /\ data_format = i.f
        /\ bytes = Serialize(i.h, i.h.big_endian = 1)
        /\ overflow_checks \in BOOLEAN
        /\ pc = "start"
        /\ result = None
        /\ twin_result = None

\* ResourceBundleReader::try_init(bytes, data_format)
TryInit ==
    /\ pc = "start"
    /\ result' = try_init(bytes, data_format, overflow_checks)
    /\ pc' = "try_init"
    /\ UNCHANGED << hdr, bytes, data_format, overflow_checks, twin_result >>

\* try_init on the twin: the same logical input serialised in the other byte order
TryInitTwin ==
    /\ pc = "try_init"
    /\ hdr.big_endian \in { 0, 1 }
    /\ twin_result' = try_init(Serialize(Twin(hdr), Twin(hdr).big_endian = 1),
                               data_format, overflow_checks)
    /\ pc' = "twin"
    /\ UNCHANGED << hdr, bytes, data_format, overflow_checks, result >>

\* the reader try_init hands to read_header, once check_magic and read_endianness passed
HeaderReader ==
    AndThen(check_magic(Cursor(bytes)), LAMBDA magic :
    AndThen(read_endianness(magic.rd), LAMBDA big_endian :
    OkR(<< >>, wrap(big_endian.rd, order_of(big_endian.val)))))

\* read_header_size(reader), as read_header calls it
ReadHeaderSize ==
    /\ pc = "start"
    /\ \E reader \in { HeaderReader } :
           /\ reader.tag = "Ok"
           /\ result' = read_header_size(reader.rd, overflow_checks)
    /\ pc' = "read_header_size"
    /\ UNCHANGED << hdr, bytes, data_format, overflow_checks, twin_result >>

\* data_format.is_acceptable_version(format_version), as validate_format_version calls it
\* on the bytes at offsets 16..19 once the tag at 12..15 matched
IsAcceptableVersion ==
    /\ pc = "start"
    /\ Len(bytes) >= 20
    /\ ~ tag_mismatch(SubSeq(bytes, 13, 16), DataFormatValue(data_format))
    /\ result' = is_acceptable_version(data_format, SubSeq(bytes, 17, 20), overflow_checks)
    /\ pc' = "is_acceptable_version"
    /\ UNCHANGED << hdr, bytes, data_format, overflow_checks, twin_result >>

Next == TryInit \/ TryInitTwin \/ ReadHeaderSize \/ IsAcceptableVersion

Spec == Init /\ [][Next]_vars

---------------------------------------------------------------------------
(* Properties *)

\* result holds what try_init returned on bytes
Inited == pc \in { "try_init", "twin" }

MagicError == ErrR("InvalidData", MAGIC_NUMBER_CHECK_FAILED)

HeaderAuthError == ErrR("InvalidData", HEADER_CHECK_FAILED)

NotEnoughIndexes == ErrR("InvalidData", "not enough indexes")

\* what read_header returns on bytes, when check_magic and read_endianness pass
HeaderResult ==
    AndThen(HeaderReader, LAMBDA reader :
    read_header(reader.rd, data_format, overflow_checks))

\* index word 0 as try_init reads it: Ok when the header passes every check and the
\* root-resource word and index word 0 are there
IndexWord0 ==
    AndThen(HeaderResult, LAMBDA header :
    AndThen(read_u32(header.rd), LAMBDA root_resource :
    read_u32(root_resource.rd)))

\* the 32-bit word at byte offset p of bytes, in the byte order try_init detected
WordAt(p) == read_u32([bytes |-> bytes, pos |-> p, order |-> result.reader.order])

\* the word at byte offset p exists and is w
WordIs(p, w) == WordAt(p).tag = "Ok" /\ WordAt(p).val = w

\* C1: try_init on the 48-byte fixture of read_header_doesnt_fail, declared
\* ResourceBundle, succeeds, and version() is Unicode10_0 of the data-version
\* bytes (1, 4, 0, 0) found at offsets 20..23.
C1_FixtureParses ==
    (Inited /\ bytes = Fixture /\ data_format = "ResourceBundle")
        => /\ result.tag = "Ok"
           /\ result.data_version = [variant |-> "Unicode10_0", version |-> << 1, 4, 0, 0 >>]
           /\ result.data_version.version = SubSeq(bytes, 21, 24)

C1_Witness ==
    /\ Inited /\ bytes = Fixture /\ data_format = "ResourceBundle"
    /\ result.tag = "Ok"
    /\ result.data_version.version = << 1, 4, 0, 0 >>

\* C2: whenever the bytes at offsets 2 and 3 are not (0xDA, 0x27), try_init returns
\* the not-this-format error, whatever the declared format and the other bytes.
C2_MagicFirst ==
    (Inited /\ Len(bytes) >= 4 /\ ~ (bytes[3] = 218 /\ bytes[4] = 39))
        => result = MagicError

\* a wrong magic in a file whose endianness byte, data info size and tag are wrong too
C2_Witness ==
    /\ Inited /\ Len(bytes) >= 24
    /\ bytes[3] = 218 /\ bytes[4] # 39
    /\ bytes[9] = 2
    /\ hdr.data_info_size < 20
    /\ tag_mismatch(SubSeq(bytes, 13, 16), DataFormatValue(data_format))
    /\ result = MagicError

\* C3 as stated: when the header passes and index word 0 is readable, a low byte
\* of index word 0 that is <= 5 makes try_init fail with "not enough indexes";
\* so every successful parse has indexes_length > 5 and decodes the attributes slot.
C3_Original ==
    \A w \in { IndexWord0 } :
        /\ (Inited /\ w.tag = "Ok" /\ w.val[2] % 256 <= 5) => result = NotEnoughIndexes
        /\ (Inited /\ result.tag = "Ok") => has_attributes(result.locals.indexes_length)

\* C3 amended: the bound is RES_INDEX_MAX_TABLE_LENGTH = 4.  A low byte <= 4 always
\* fails with "not enough indexes", a larger one never does, so a successful
\* parse has indexes_length >= 5; at exactly 5 the attributes slot is not decoded
\* and the attribute fields keep their defaults.
C3_TooShortAtFour ==
    \A w \in { IndexWord0 } :
        (Inited /\ w.tag = "Ok") =>
            /\ (w.val[2] % 256 <= 4) => result = NotEnoughIndexes
            /\ (w.val[2] % 256 > 4) => result # NotEnoughIndexes
            /\ (result.tag = "Ok") => result.locals.indexes_length = w.val[2] % 256
            /\ (result.tag = "Ok" /\ w.val[2] % 256 = 5) =>
                   /\ ~ result.no_fallback
                   /\ ~ result.is_pool_bundle
                   /\ ~ result.uses_pool_bundle
                   /\ result.pool_string_index_16_limit = << 0, 0 >>
                   /\ result.pool_string_index_limit[1] \div 256 = 0

C3_Witness ==
    \E w \in { IndexWord0 } :
        /\ Inited /\ w.tag = "Ok"
        /\ w.val[2] % 256 = 4
        /\ result = NotEnoughIndexes

\* both results are the same outcome: the same failure, or success with the same
\* root_resource, version, flags and limits
SameOutcome(r1, r2) ==
    IF r1.tag = "Ok" /\ r2.tag = "Ok"
    THEN /\ r1.root_resource = r2.root_resource
         /\ r1.data_version = r2.data_version
         /\ r1.no_fallback = r2.no_fallback
         /\ r1.is_pool_bundle = r2.is_pool_bundle
         /\ r1.uses_pool_bundle = r2.uses_pool_bundle
         /\ r1.pool_string_index_limit = r2.pool_string_index_limit
         /\ r1.pool_string_index_16_limit = r2.pool_string_index_16_limit
    ELSE r1 = r2

\* C4: a logical header and index table (the root-resource word placed where
\* header_size says) serialised little-endian with endianness byte 0 and big-endian
\* with endianness byte 1 give the same outcome of try_init.
C4_ByteOrderIndependent ==
    (pc = "twin" /\ hdr.header_size = 24 + hdr.padding)
        => SameOutcome(result, twin_result)

\* C5 as stated: with att = 0x00010007 the three flags are true and bit 24 of
\* pool_string_index_limit is set.
C5_Original ==
    (Inited /\ result.tag = "Ok" /\ has_attributes(result.locals.indexes_length)
        /\ result.locals.att = << 1, 7 >>)
        => /\ result.no_fallback /\ result.is_pool_bundle /\ result.uses_pool_bundle
           /\ (result.pool_string_index_limit[1] \div 256) % 2 = 1

\* C5 amended: with att = 0x00010007 the three flags are true,
\* pool_string_index_16_limit is 1 and bit 24 of pool_string_index_limit is clear
\* (bits 12..15 of that att are 0; its bit 16 is the one set).  Bits 24..27 of
\* pool_string_index_limit are bits 12..15 of att, bits 28..31 are 0, and
\* pool_string_index_16_limit is att >> 16: bit 24 is set for att = 0x00001007.
C5_AttributesDecoded ==
    (Inited /\ result.tag = "Ok" /\ has_attributes(result.locals.indexes_length))
        => /\ result.no_fallback = (result.locals.att[2] % 2 = 1)
           /\ result.is_pool_bundle = ((result.locals.att[2] \div 2) % 2 = 1)
           /\ result.uses_pool_bundle = ((result.locals.att[2] \div 4) % 2 = 1)
           /\ result.pool_string_index_limit[1] \div 256 = (result.locals.att[2] \div 4096) % 16
           /\ result.pool_string_index_16_limit = << 0, result.locals.att[1] >>
           /\ (result.locals.att = << 1, 7 >>) =>
                  /\ result.no_fallback /\ result.is_pool_bundle /\ result.uses_pool_bundle
                  /\ result.pool_string_index_16_limit = << 0, 1 >>
                  /\ (result.pool_string_index_limit[1] \div 256) % 2 = 0
           /\ (result.locals.att = << 0, 4103 >>) =>
                  /\ result.no_fallback /\ result.is_pool_bundle /\ result.uses_pool_bundle
                  /\ (result.pool_string_index_limit[1] \div 256) % 2 = 1

C5_Witness ==
    /\ Inited /\ result.tag = "Ok" /\ has_attributes(result.locals.indexes_length)
    /\ result.locals.att = << 1, 7 >>
    /\ result.no_fallback /\ result.is_pool_bundle /\ result.uses_pool_bundle
    /\ result.pool_string_index_16_limit = << 0, 1 >>

\* C6: for BreakIteration, is_acceptable_version accepts a format version exactly
\* when it is (4, 0, 0, 0), whose bytes put together most significant first are
\* 0x04000000.
C6_BreakIterationExact ==
    (pc = "is_acceptable_version" /\ data_format = "BreakIteration")
        => (result = Val(TRUE) <=> SubSeq(bytes, 17, 20) = << 4, 0, 0, 0 >>)

\* C7: once the magic check has passed, a failure of any of the four header
\* checks is one and the same error, the one read_endianness returns: kind
\* InvalidData with the header-authentication-failed message.
C7_OneHeaderError ==
    \A h \in { HeaderReader } :
        (Inited /\ Len(bytes) >= 24 /\ ~ magic_mismatch(bytes[3], bytes[4])
            /\ (h.tag = "Err" \/ HeaderResult.tag = "Err"))
            => result = HeaderAuthError

\* C8: the slots try_init seeks to are 32-bit words of the index table: keys-top,
\* bundle-top and attributes are the words at byte offsets header_size + 4 + 4*n
\* for n = 1, 3, 5.
C8_WordAddressed ==
    (Inited /\ result.tag = "Ok") =>
        /\ WordIs(result.locals.header_size + 4 + 4 * RES_INDEX_KEYS_TOP,
                  result.locals.keys_top)
        /\ WordIs(result.locals.header_size + 4 + 4 * RES_INDEX_BUNDLE_TOP,
                  result.locals.bundle_top)
        /\ has_attributes(result.locals.indexes_length) =>
               WordIs(result.locals.header_size + 4 + 4 * RES_INDEX_ATTRIBUTES,
                      result.locals.att)

\* C9: read_header_size succeeds exactly when data_info_size >= 20 and
\* header_size >= data_info_size + 4, the sum being the mathematical one.
C9_HeaderSizeExact ==
    (pc = "read_header_size")
        => (result.tag = "Ok"
               <=> (hdr.data_info_size >= 20 /\ hdr.header_size >= hdr.data_info_size + 4))

\* C10: try_init always returns, with a reader or with an error value; no
\* arithmetic on the file's values aborts it.
C10_Total ==
    Inited => result.tag \in { "Ok", "Err" }

====
